---- MODULE Spec2Model ----
(***************************************************************************)
(* Model of the default bridging adapters of embedded-hal:                 *)
(*   - blocking::spi::transfer / blocking::spi::write  (src/blocking/spi.rs)*)
(*   - digital::toggleable toggle()                    (src/digital.rs)    *)
(*                                                                         *)
(* The SPI bridges are modelled one device call per step: every step is    *)
(* one invocation of the device's non-blocking send()/read() together with *)
(* what block!(..)? and the surrounding for-loop do with its result.  The   *)
(* device is the environment: its answers are drawn nondeterministically.  *)
(* The pin is modelled one trait-method call per step.                     *)
(***************************************************************************)
EXTENDS Integers, Sequences, FiniteSets, TLC

\* ---------------------------------------------------------------- bounds
MaxLen   == 2   \* longest slice handed to transfer()/write()
MaxWord  == 1   \* words W are 0..MaxWord
MaxErr   == 2   \* fatal device errors S::Error are 1..MaxErr
MaxBlock == 2   \* WouldBlock answers the device gives during one call
MaxOps   == 4   \* pin method calls in one run

Word   == 0..MaxWord
Errors == 1..MaxErr

VARIABLES
  mode,      \* which bridge runs: "idle", "transfer", "write"
  pc,        \* position in the bridge: "idle", "send", "read", "done"
  words,     \* the caller-owned slice `words`
  idx,       \* 1-based position of the loop variable `word` in `words`
  result,    \* what the bridge returned
  orig,      \* history: `words` as passed by the caller
  calls,     \* history: every device call made, with argument and answer
  pinKind,   \* which StatefulOutputPin implementation the pin has
  pinState,  \* MyPin.state
  pinTrace   \* history: pin method calls, with the state before and after

spiVars == <<mode, pc, words, idx, result, orig, calls>>
pinVars == <<pinKind, pinState, pinTrace>>
vars    == <<mode, pc, words, idx, result, orig, calls, pinKind, pinState, pinTrace>>

\* ------------------------------------------------------- values and helpers
\* nb::Result<T, E> as answered by the device: Ok(v), Err(WouldBlock),
\* Err(Other(e)).  send() answers Ok(()), written as val 0.
WouldBlock == [tag |-> "WouldBlock", val |-> 0]
Other(e)   == [tag |-> "Other", val |-> e]
Ok(v)      == [tag |-> "Ok", val |-> v]

SendAnswers == {WouldBlock} \cup {Other(e) : e \in Errors} \cup {Ok(0)}
ReadAnswers == {WouldBlock} \cup {Other(e) : e \in Errors} \cup {Ok(v) : v \in Word}

\* Result<_, S::Error> of the bridge.  data is the returned slice (transfer)
\* or empty for () (write); err is the error value, 0 when there is none.
NoResult     == [tag |-> "None", err |-> 0, data |-> <<>>]
RetOk(d)     == [tag |-> "Ok", err |-> 0, data |-> d]
RetErr(e)    == [tag |-> "Err", err |-> e, data |-> <<>>]

Slices == UNION {[1..n -> Word] : n \in 0..MaxLen}

NumBlocked == Cardinality({k \in 1..Len(calls) : calls[k].res.tag = "WouldBlock"})

\* The device may answer WouldBlock only finitely often during one call.
Allowed(answers) == IF NumBlocked < MaxBlock THEN answers ELSE answers \ {WouldBlock}

Call(op, arg, r) == [op |-> op, pos |-> idx, arg |-> arg, res |-> r]

\* Variants of block! with a slip in one arm of its match.
\* Err(Other(e)) breaks with a fixed error value instead of e.
block_loses_error(r) ==
  IF r.tag = "WouldBlock" THEN [tag |-> "Retry", val |-> 0]
  ELSE IF r.tag = "Other" THEN [tag |-> "Err", val |-> 1]
  ELSE [tag |-> "Ok", val |-> r.val]

\* Err(WouldBlock) breaks out of the loop as an error instead of looping.
block_surfaces_would_block(r) ==
  IF r.tag = "WouldBlock" THEN [tag |-> "WouldBlock", val |-> 0]
  ELSE IF r.tag = "Other" THEN [tag |-> "Err", val |-> r.val]
  ELSE [tag |-> "Ok", val |-> r.val]

\* Err(Other(e)) is swallowed and the loop breaks as if the call succeeded.
block_ignores_fatal(r) ==
  IF r.tag = "WouldBlock" THEN [tag |-> "Retry", val |-> 0]
  ELSE [tag |-> "Ok", val |-> IF r.tag = "Ok" THEN r.val ELSE 0]

\* Err(WouldBlock) breaks out of the loop as if the call succeeded.
block_gives_up_waiting(r) ==
  IF r.tag = "WouldBlock" THEN [tag |-> "Ok", val |-> 0]
  ELSE IF r.tag = "Other" THEN [tag |-> "Err", val |-> r.val]
  ELSE [tag |-> "Ok", val |-> r.val]

\* block!(e): one turn of the retry loop on the answer r of e.
\*   Err(WouldBlock) => loop again; Err(Other(e)) => break Err(e); Ok(x) => break Ok(x)
block(r) ==
  IF r.tag = "WouldBlock" THEN [tag |-> "Retry", val |-> 0]
  ELSE IF r.tag = "Other" THEN [tag |-> "Err", val |-> r.val]
  ELSE [tag |-> "Ok", val |-> r.val]

\* Variant of word.clone() that always takes the first word of the slice.
clone_first(ws, i) == ws[1]

\* word.clone(): the word the loop variable refers to, i.e. the current
\* content of position i of the slice.
clone(ws, i) == ws[i]

\* Variants of *word = v: the received word is dropped, or lands one
\* position further on.
assign_dropped(ws, i, v) == ws

assign_shifted(ws, i, v) == [ws EXCEPT ![IF i < Len(ws) THEN i + 1 ELSE i] = v]

\* *word = v: overwrite position i of the slice.
assign(ws, i, v) == [ws EXCEPT ![i] = v]

\* ------------------------------------------------------------- SPI bridges
\* Variant of the entry of transfer that runs the loop body before testing
\* whether a word is left.
transfer_call_enters_loop(ws) ==
  /\ pc = "idle"
  /\ mode' = "transfer"
  /\ words' = ws
  /\ orig' = ws
  /\ idx' = 1
  /\ pc' = "send" /\ result' = NoResult
  /\ UNCHANGED <<calls, pinVars>>

\* transfer(words): entry and first evaluation of `for word in words.iter_mut()`
transfer_call(ws) ==
  /\ pc = "idle"
  /\ mode' = "transfer"
  /\ words' = ws
  /\ orig' = ws
  /\ idx' = 1
  /\ IF Len(ws) = 0
       THEN pc' = "done" /\ result' = RetOk(ws)
       ELSE pc' = "send" /\ result' = NoResult
  /\ UNCHANGED <<calls, pinVars>>

\* block!(self.send(word.clone()))?  -- one invocation of send
transfer_send(r) ==
  /\ mode = "transfer" /\ pc = "send"
  /\ calls' = Append(calls, Call("send", clone(words, idx), r))
  /\ LET b == block(r) IN
       IF b.tag = "Retry" THEN UNCHANGED <<pc, result>>
       ELSE IF b.tag = "Ok" THEN pc' = "read" /\ UNCHANGED result
       ELSE pc' = "done" /\ result' = [tag |-> b.tag, err |-> b.val, data |-> <<>>]
  /\ UNCHANGED <<mode, words, idx, orig, pinVars>>

\* *word = block!(self.read())?  -- one invocation of read, then the loop head
transfer_read(r) ==
  /\ mode = "transfer" /\ pc = "read"
  /\ calls' = Append(calls, Call("read", 0, r))
  /\ LET b == block(r) IN
       IF b.tag = "Retry" THEN UNCHANGED <<pc, result, words, idx>>
       ELSE IF b.tag = "Ok" THEN
         /\ words' = assign(words, idx, b.val)
         /\ idx' = idx + 1
         /\ IF idx = Len(words)
              THEN pc' = "done" /\ result' = RetOk(words')
              ELSE pc' = "send" /\ UNCHANGED result
       ELSE
         /\ pc' = "done" /\ result' = [tag |-> b.tag, err |-> b.val, data |-> <<>>]
         /\ UNCHANGED <<words, idx>>
  /\ UNCHANGED <<mode, orig, pinVars>>

\* write(words): entry and first evaluation of `for word in words`
write_call(ws) ==
  /\ pc = "idle"
  /\ mode' = "write"
  /\ words' = ws
  /\ orig' = ws
  /\ idx' = 1
  /\ IF Len(ws) = 0
       THEN pc' = "done" /\ result' = RetOk(<<>>)
       ELSE pc' = "send" /\ result' = NoResult
  /\ UNCHANGED <<calls, pinVars>>

\* Variant of the send step of write that ignores the incoming words by
\* not reading them: after a send it goes on to the next word.
write_send_no_drain(r) ==
  /\ mode = "write" /\ pc = "send"
  /\ calls' = Append(calls, Call("send", clone(words, idx), r))
  /\ LET b == block(r) IN
       IF b.tag = "Retry" THEN UNCHANGED <<pc, result, idx>>
       ELSE IF b.tag = "Ok" THEN
         /\ idx' = idx + 1
         /\ IF idx = Len(words)
              THEN pc' = "done" /\ result' = RetOk(<<>>)
              ELSE pc' = "send" /\ UNCHANGED result
       ELSE
         /\ pc' = "done" /\ result' = [tag |-> b.tag, err |-> b.val, data |-> <<>>]
         /\ UNCHANGED idx
  /\ UNCHANGED <<mode, words, orig, pinVars>>

\* block!(self.send(word.clone()))?
write_send(r) ==
  /\ mode = "write" /\ pc = "send"
  /\ calls' = Append(calls, Call("send", clone(words, idx), r))
  /\ LET b == block(r) IN
       IF b.tag = "Retry" THEN UNCHANGED <<pc, result>>
       ELSE IF b.tag = "Ok" THEN pc' = "read" /\ UNCHANGED result
       ELSE pc' = "done" /\ result' = [tag |-> b.tag, err |-> b.val, data |-> <<>>]
  /\ UNCHANGED <<mode, words, idx, orig, pinVars>>

\* Variant of the read step of write that stores the word read, as
\* transfer does.
write_read_stores(r) ==
  /\ mode = "write" /\ pc = "read"
  /\ calls' = Append(calls, Call("read", 0, r))
  /\ LET b == block(r) IN
       IF b.tag = "Retry" THEN UNCHANGED <<pc, result, words, idx>>
       ELSE IF b.tag = "Ok" THEN
         /\ words' = assign(words, idx, b.val)
         /\ idx' = idx + 1
         /\ IF idx = Len(words)
              THEN pc' = "done" /\ result' = RetOk(<<>>)
              ELSE pc' = "send" /\ UNCHANGED result
       ELSE
         /\ pc' = "done" /\ result' = [tag |-> b.tag, err |-> b.val, data |-> <<>>]
         /\ UNCHANGED <<words, idx>>
  /\ UNCHANGED <<mode, orig, pinVars>>

\* block!(self.read())?  -- the word read is dropped; then the loop head
write_read(r) ==
  /\ mode = "write" /\ pc = "read"
  /\ calls' = Append(calls, Call("read", 0, r))
  /\ LET b == block(r) IN
       IF b.tag = "Retry" THEN UNCHANGED <<pc, result, idx>>
       ELSE IF b.tag = "Ok" THEN
         /\ idx' = idx + 1
         /\ IF idx = Len(words)
              THEN pc' = "done" /\ result' = RetOk(<<>>)
              ELSE pc' = "send" /\ UNCHANGED result
       ELSE
         /\ pc' = "done" /\ result' = [tag |-> b.tag, err |-> b.val, data |-> <<>>]
         /\ UNCHANGED idx
  /\ UNCHANGED <<mode, words, orig, pinVars>>

\* -------------------------------------------------------------- digital pin
\* The pin is either the documented software pin MyPin, whose queries read
\* the stored state, or an implementation of StatefulOutputPin whose
\* is_set_high is not the complement of is_set_low.
PinKinds == {"MyPin", "NonComplementary"}

\* MyPin: fn is_set_low(&self) -> bool { !self.state }
is_set_low(kind, st) == ~st

\* Variant of MyPin::is_set_high that does not read the stored state.
is_set_high_stuck(kind, st) == TRUE

\* MyPin: fn is_set_high(&self) -> bool { self.state }
is_set_high(kind, st) == IF kind = "MyPin" THEN st ELSE ~st

PinCall(op, after, cs) ==
  [op |-> op, before |-> pinState, after |-> after, calls |-> cs]

\* MyPin: fn set_low(&mut self) { self.state = false; }
set_low ==
  /\ Len(pinTrace) < MaxOps
  /\ pinState' = FALSE
  /\ pinTrace' = Append(pinTrace, PinCall("set_low", FALSE, <<"set_low">>))
  /\ UNCHANGED <<pinKind, spiVars>>

\* MyPin: fn set_high(&mut self) { self.state = true; }
set_high ==
  /\ Len(pinTrace) < MaxOps
  /\ pinState' = TRUE
  /\ pinTrace' = Append(pinTrace, PinCall("set_high", TRUE, <<"set_high">>))
  /\ UNCHANGED <<pinKind, spiVars>>

\* Variants of toggle(): the condition asks is_set_high, or the else
\* branch is missing.
toggle_queries_high ==
  /\ Len(pinTrace) < MaxOps
  /\ IF is_set_high(pinKind, pinState)
       THEN /\ pinState' = TRUE
            /\ pinTrace' = Append(pinTrace, PinCall("toggle", TRUE, <<"is_set_high", "set_high">>))
       ELSE /\ pinState' = FALSE
            /\ pinTrace' = Append(pinTrace, PinCall("toggle", FALSE, <<"is_set_high", "set_low">>))
  /\ UNCHANGED <<pinKind, spiVars>>

toggle_sets_high_only ==
  /\ Len(pinTrace) < MaxOps
  /\ IF is_set_low(pinKind, pinState)
       THEN /\ pinState' = TRUE
            /\ pinTrace' = Append(pinTrace, PinCall("toggle", TRUE, <<"is_set_low", "set_high">>))
       ELSE /\ pinState' = pinState
            /\ pinTrace' = Append(pinTrace, PinCall("toggle", pinState, <<"is_set_low">>))
  /\ UNCHANGED <<pinKind, spiVars>>

\* toggleable: if self.is_set_low() { self.set_high(); } else { self.set_low(); }
toggle ==
  /\ Len(pinTrace) < MaxOps
  /\ IF is_set_low(pinKind, pinState)
       THEN /\ pinState' = TRUE
            /\ pinTrace' = Append(pinTrace, PinCall("toggle", TRUE, <<"is_set_low", "set_high">>))
       ELSE /\ pinState' = FALSE
            /\ pinTrace' = Append(pinTrace, PinCall("toggle", FALSE, <<"is_set_low", "set_low">>))
  /\ UNCHANGED <<pinKind, spiVars>>

SpiInit ==
  /\ mode = "idle" /\ pc = "idle"
  /\ words = <<>> /\ orig = <<>> /\ idx = 1
  /\ result = NoResult
  /\ calls = <<>>

PinParked ==
  /\ pinKind = "MyPin" /\ pinState = FALSE /\ pinTrace = <<>>

Init == SpiInit /\ PinParked

Next ==
  \/ \E ws \in Slices : transfer_call(ws)
  \/ \E ws \in Slices : write_call(ws)
  \/ \E r \in Allowed(SendAnswers) : transfer_send(r)
  \/ \E r \in Allowed(ReadAnswers) : transfer_read(r)
  \/ \E r \in Allowed(SendAnswers) : write_send(r)
  \/ \E r \in Allowed(ReadAnswers) : write_read(r)

Spec == Init /\ [][Next]_vars

\* The bridge is a running loop and the device answers every call, so a
\* pending device call is eventually made; the device stops answering
\* WouldBlock after finitely many times (Allowed).
Step ==
  \/ \E r \in Allowed(SendAnswers) : transfer_send(r)
  \/ \E r \in Allowed(ReadAnswers) : transfer_read(r)
  \/ \E r \in Allowed(SendAnswers) : write_send(r)
  \/ \E r \in Allowed(ReadAnswers) : write_read(r)

LiveSpec == Init /\ [][Next]_vars /\ WF_vars(Step)

PinInit ==
  /\ pinKind \in PinKinds
  /\ pinState \in BOOLEAN
  /\ pinTrace = <<>>

PinSpecInit == SpiInit /\ PinInit

PinNext == set_low \/ set_high \/ toggle

PinSpec == PinSpecInit /\ [][PinNext]_vars


\* ------------------------------------------------------- history operators
Fatal(k)   == calls[k].res.tag = "Other"
HasFatal   == \E k \in 1..Len(calls) : Fatal(k)
FirstFatal == CHOOSE k \in 1..Len(calls) : Fatal(k) /\ \A j \in 1..(k - 1) : ~Fatal(j)

\* The units the device's read returned, successfully, at position i.
Received(i) ==
  {calls[k].res.val : k \in {j \in 1..Len(calls) :
      calls[j].op = "read" /\ calls[j].pos = i /\ calls[j].res.tag = "Ok"}}

\* The device calls that did not answer WouldBlock, in order.
Answered == SelectSeq(calls, LAMBDA c : c.res.tag # "WouldBlock")

Returned == pc = "done"

\* ------------------------------------------------------------------ claims

\* C1: when no send or read of a blocking transfer fails fatally, the
\* transfer returns success with a slice as long as the input in which
\* position i holds exactly the unit the device's read returned for
\* position i, whatever number of WouldBlock answers came in between.
C1_TransferExchangesInOrder ==
  (mode = "transfer" /\ Returned /\ ~HasFatal) =>
     /\ result.tag = "Ok"
     /\ result.data = words
     /\ Len(result.data) = Len(orig)
     /\ \A i \in 1..Len(orig) : Received(i) = {result.data[i]}
     /\ \A j, k \in 1..Len(calls) :
          (j < k /\ calls[j].res.tag = "Ok" /\ calls[k].res.tag = "Ok")
             => calls[j].pos <= calls[k].pos

C1_Witness ==
  /\ mode = "transfer" /\ Returned /\ result.tag = "Ok"
  /\ Len(orig) >= 2 /\ NumBlocked >= 2
  /\ \E i \in 1..Len(orig) : words[i] # orig[i]

\* C2: a fatal error from send or read at position i of a blocking transfer
\* is what the transfer reports; positions before i hold the units received
\* for them and positions from i on hold the caller's original units.
C2_TransferPartialEffect ==
  (mode = "transfer" /\ HasFatal) =>
     LET f == calls[FirstFatal] IN
       /\ Returned
       /\ result = RetErr(f.res.val)
       /\ Len(words) = Len(orig)
       /\ \A j \in 1..Len(orig) :
            /\ j < f.pos => Received(j) = {words[j]}
            /\ j >= f.pos => words[j] = orig[j]

C2_Witness ==
  /\ mode = "transfer" /\ HasFatal
  /\ calls[FirstFatal].op = "read" /\ calls[FirstFatal].pos = 2
  /\ words[1] # orig[1]
  /\ Len(orig) >= 2

\* C3: a fatal error of the device is the last device call of the bridge,
\* ends it at once, and is the error value the caller gets.
C3_FatalPropagatedImmediately ==
  \A k \in 1..Len(calls) :
     Fatal(k) => /\ k = Len(calls)
                 /\ Returned
                 /\ result = RetErr(calls[k].res.val)

C3_Witness ==
  /\ mode = "write" /\ HasFatal
  /\ calls[FirstFatal].op = "send" /\ calls[FirstFatal].pos = 2
  /\ calls[FirstFatal].res.val = 2
  /\ Len(orig) >= 2

\* C4: WouldBlock never reaches the caller: a bridge that has returned
\* reports success (empty slice, or the read of the last unit succeeded) or
\* a fatal error the device produced, and which of the two depends only on
\* the answers other than WouldBlock; until it returns there is no result.
C4_WouldBlockAbsorbed ==
  /\ ~Returned => result = NoResult
  /\ Returned =>
       /\ result.tag \in {"Ok", "Err"}
       /\ result.tag = "Ok" <=>
            \/ orig = <<>>
            \/ /\ Len(Answered) = 2 * Len(orig)
               /\ Answered[Len(Answered)].op = "read"
               /\ Answered[Len(Answered)].pos = Len(orig)
               /\ Answered[Len(Answered)].res.tag = "Ok"
       /\ result.tag = "Err" =>
            /\ Answered # <<>>
            /\ Answered[Len(Answered)].res = Other(result.err)

C4_Witness ==
  /\ Returned /\ result.tag = "Ok" /\ NumBlocked >= 2
  /\ calls[1].res.tag = "WouldBlock"
  /\ calls[Len(calls) - 1].res.tag = "WouldBlock"
  /\ Len(orig) >= 2

\* C5: units are processed strictly in order: a send for position p > 1 is
\* made only after the read for position p - 1 has succeeded, and never
\* after any send or read failed fatally.
C5_StrictSequenceOrder ==
  \A k \in 1..Len(calls) :
     calls[k].op = "send" =>
        /\ \A j \in 1..(k - 1) : ~Fatal(j)
        /\ calls[k].pos > 1 =>
             \E j \in 1..(k - 1) : /\ calls[j].op = "read"
                                   /\ calls[j].pos = calls[k].pos - 1
                                   /\ calls[j].res.tag = "Ok"

C5_Witness ==
  /\ Len(calls) >= 4
  /\ calls[Len(calls)].op = "send" /\ calls[Len(calls)].pos = 2
  /\ \E j \in 1..Len(calls) : calls[j].op = "read" /\ calls[j].res.tag = "WouldBlock"

\* C6: blocking write leaves every position of the caller's slice at its
\* original value, at every point of the call and however it ends.
C6_WriteNeverMutates ==
  mode = "write" => words = orig

C6_Witness ==
  /\ mode = "write" /\ Len(orig) >= 2
  /\ \E k \in 1..Len(calls) :
       /\ calls[k].op = "read" /\ calls[k].res.tag = "Ok"
       /\ calls[k].res.val # orig[calls[k].pos]

\* C7: a successful blocking write of n units has made the device accept
\* exactly the n input units in order, each followed by exactly one
\* successful read, and gives the caller no data.
C7_WriteSendsAndDrains ==
  (mode = "write" /\ Returned /\ result.tag = "Ok") =>
     /\ Len(Answered) = 2 * Len(orig)
     /\ \A i \in 1..Len(orig) :
          /\ Answered[2 * i - 1].op = "send"
          /\ Answered[2 * i - 1].pos = i
          /\ Answered[2 * i - 1].arg = orig[i]
          /\ Answered[2 * i - 1].res.tag = "Ok"
          /\ Answered[2 * i].op = "read"
          /\ Answered[2 * i].pos = i
          /\ Answered[2 * i].res.tag = "Ok"
     /\ result.data = <<>>

C7_Witness ==
  /\ mode = "write" /\ Returned /\ result.tag = "Ok"
  /\ Len(orig) >= 2 /\ orig[1] # orig[2]
  /\ NumBlocked >= 1

\* C8: on a pin whose queries report the stored state, one toggle() flips
\* it: set low before gives set high after, set high before gives set low
\* after.
C8_ToggleFlips ==
  pinKind = "MyPin" =>
    \A k \in 1..Len(pinTrace) :
       pinTrace[k].op = "toggle" =>
          /\ is_set_low(pinKind, pinTrace[k].before) => is_set_high(pinKind, pinTrace[k].after)
          /\ is_set_high(pinKind, pinTrace[k].before) => is_set_low(pinKind, pinTrace[k].after)

C8_Witness ==
  /\ pinKind = "MyPin"
  /\ \E j, k \in 1..Len(pinTrace) :
       /\ pinTrace[j].op = "toggle" /\ is_set_low(pinKind, pinTrace[j].before)
       /\ pinTrace[k].op = "toggle" /\ is_set_high(pinKind, pinTrace[k].before)

\* C9: on a pin with complementary queries, a run of consecutive toggle()
\* calls of even length restores the commanded state and a run of odd
\* length inverts it; in particular two toggles restore it.
C9_ToggleTwiceRestores ==
  pinKind = "MyPin" =>
    \A j, k \in 1..Len(pinTrace) :
       (j <= k /\ \A m \in j..k : pinTrace[m].op = "toggle") =>
          ((pinTrace[k].after = pinTrace[j].before) <=> ((k - j + 1) % 2 = 0))

C9_Witness ==
  /\ pinKind = "MyPin"
  /\ \E j \in 1..(Len(pinTrace) - 1) :
       /\ pinTrace[j].op = "toggle" /\ pinTrace[j + 1].op = "toggle"
       /\ pinTrace[j].before = TRUE
  /\ \E j \in 1..(Len(pinTrace) - 1) :
       /\ pinTrace[j].op = "toggle" /\ pinTrace[j + 1].op = "toggle"
       /\ pinTrace[j].before = FALSE

\* C10: a bridge that has been called returns, given that the device does
\* not answer WouldBlock forever; and a WouldBlock answer leaves the bridge
\* in the same retry step, not returned.
C10_ReturnsUnlessBlockedForever ==
  /\ (pc \in {"send", "read"}) ~> Returned
  /\ [][(Len(calls') = Len(calls) + 1 /\ calls'[Len(calls')].res.tag = "WouldBlock")
          => /\ pc' = pc /\ pc' # "done"
             /\ idx' = idx
             /\ words' = words
             /\ result' = NoResult
             /\ calls'[Len(calls')].op = pc]_vars

C10_Witness ==
  /\ Returned /\ Len(orig) >= 2
  /\ NumBlocked >= 2
  /\ calls[1].res.tag = "WouldBlock" /\ calls[2].res.tag = "WouldBlock"

\* C11: on the software pin that stores its commanded state, exactly one of
\* is_set_high() and is_set_low() holds in the current state and in every
\* state any sequence of set_low, set_high and toggle calls went through.
C11_QueriesComplementary ==
  pinKind = "MyPin" =>
    /\ is_set_high(pinKind, pinState) # is_set_low(pinKind, pinState)
    /\ \A k \in 1..Len(pinTrace) :
         /\ is_set_high(pinKind, pinTrace[k].before) # is_set_low(pinKind, pinTrace[k].before)
         /\ is_set_high(pinKind, pinTrace[k].after) # is_set_low(pinKind, pinTrace[k].after)
         /\ pinTrace[k].after = (IF k < Len(pinTrace) THEN pinTrace[k + 1].before ELSE pinState)

C11_Witness ==
  /\ pinKind = "MyPin"
  /\ \A o \in {"set_low", "set_high", "toggle"} :
       \E k \in 1..Len(pinTrace) : pinTrace[k].op = o
  /\ is_set_low(pinKind, pinState)

\* C12: every toggle() makes exactly two calls on the pin: first the query
\* is_set_low, then one command, set_high or set_low; it never calls
\* is_set_high.
C12_ToggleOneQueryOneCommand ==
  \A k \in 1..Len(pinTrace) :
     pinTrace[k].op = "toggle" =>
        /\ Len(pinTrace[k].calls) = 2
        /\ pinTrace[k].calls[1] = "is_set_low"
        /\ pinTrace[k].calls[2] \in {"set_high", "set_low"}
        /\ \A c \in 1..Len(pinTrace[k].calls) : pinTrace[k].calls[c] # "is_set_high"

C12_Witness ==
  /\ \E k \in 1..Len(pinTrace) :
       pinTrace[k].op = "toggle" /\ pinTrace[k].calls[2] = "set_high"
  /\ \E k \in 1..Len(pinTrace) :
       pinTrace[k].op = "toggle" /\ pinTrace[k].calls[2] = "set_low"

\* C13: toggle() decides on is_set_low() alone: when it is true the command
\* is set_high, when it is false the command is set_low, also on a pin whose
\* is_set_high() is not its complement (both true, or both false).
C13_ToggleDecidesOnIsSetLow ==
  \A k \in 1..Len(pinTrace) :
     pinTrace[k].op = "toggle" =>
        /\ is_set_low(pinKind, pinTrace[k].before) =>
             (pinTrace[k].calls[Len(pinTrace[k].calls)] = "set_high" /\ pinTrace[k].after = TRUE)
        /\ ~is_set_low(pinKind, pinTrace[k].before) =>
             (pinTrace[k].calls[Len(pinTrace[k].calls)] = "set_low" /\ pinTrace[k].after = FALSE)

C13_Witness ==
  /\ pinKind = "NonComplementary"
  /\ \E k \in 1..Len(pinTrace) :
       /\ pinTrace[k].op = "toggle"
       /\ is_set_low(pinKind, pinTrace[k].before) /\ is_set_high(pinKind, pinTrace[k].before)
  /\ \E k \in 1..Len(pinTrace) :
       /\ pinTrace[k].op = "toggle"
       /\ ~is_set_low(pinKind, pinTrace[k].before) /\ ~is_set_high(pinKind, pinTrace[k].before)

\* Device calls with a given name and answer tag, as positions of the history.
CallsWith(op, tag) ==
  {k \in 1..Len(calls) : calls[k].op = op /\ calls[k].res.tag = tag}

\* C14: after a WouldBlock answer the next device call is the same
\* operation at the same position with the same argument; the bridge waits
\* in that step meanwhile; no position is accepted by send more than once
\* and none is passed over.
C14_RetrySameCall ==
  /\ \A k \in 1..Len(calls) :
       calls[k].res.tag = "WouldBlock" =>
          IF k < Len(calls)
            THEN /\ calls[k + 1].op = calls[k].op
                 /\ calls[k + 1].pos = calls[k].pos
                 /\ calls[k + 1].arg = calls[k].arg
            ELSE pc = calls[k].op /\ idx = calls[k].pos
  /\ \A j, k \in CallsWith("send", "Ok") : calls[j].pos = calls[k].pos => j = k
  /\ \A k \in 1..Len(calls) :
       calls[k].pos = (IF k = 1 THEN 1
                       ELSE IF calls[k - 1].op = "read" /\ calls[k - 1].res.tag = "Ok"
                              THEN calls[k - 1].pos + 1
                              ELSE calls[k - 1].pos)

C14_Witness ==
  /\ Len(calls) >= 4
  /\ calls[1].op = "send" /\ calls[1].res.tag = "WouldBlock"
  /\ calls[2].op = "send" /\ calls[2].res.tag = "Ok"
  /\ calls[3].op = "read" /\ calls[3].res.tag = "WouldBlock"
  /\ calls[4].op = "read" /\ calls[4].res.tag = "Ok"
  /\ Len(orig) >= 2

\* C15: every unit blocking transfer hands to send is the caller's original
\* unit of that position, never a unit received earlier.
C15_TransferSendsOriginal ==
  mode = "transfer" =>
    \A k \in 1..Len(calls) :
       calls[k].op = "send" => calls[k].arg = orig[calls[k].pos]

C15_Witness ==
  /\ mode = "transfer"
  /\ \E k \in 1..Len(calls) :
       /\ calls[k].op = "send" /\ calls[k].pos = 2
       /\ words[1] # orig[1]
       /\ words[1] # orig[2]

\* C16: the successful sends are as many as the successful reads, or one
\* more: as many when the bridge returned success or failed in send, one
\* more when it failed in read (and then the failing position is unmodified).
C16_SendsReadsBalanced ==
  LET d == Cardinality(CallsWith("send", "Ok")) - Cardinality(CallsWith("read", "Ok")) IN
    /\ d \in {0, 1}
    /\ (Returned /\ result.tag = "Ok") => d = 0
    /\ \A k \in CallsWith("send", "Other") : d = 0
    /\ \A k \in CallsWith("read", "Other") :
         d = 1 /\ words[calls[k].pos] = orig[calls[k].pos]
    /\ pc = "read" <=> (d = 1 /\ ~HasFatal)

C16_Witness ==
  /\ mode = "transfer"
  /\ \E k \in CallsWith("read", "Other") : calls[k].pos = 2
  /\ words[1] # orig[1]

\* What a bridge over the input `orig` has come to after the first k device
\* answers of the history, told without regard to which bridge it is: the
\* step it is in, its position, and what it returned.
RECURSIVE After(_)
After(k) ==
  IF k = 0
    THEN IF orig = <<>>
           THEN [pc |-> "done", idx |-> 1, tag |-> "Ok", err |-> 0]
           ELSE [pc |-> "send", idx |-> 1, tag |-> "None", err |-> 0]
    ELSE LET s == After(k - 1)
             a == calls[k].res
         IN  IF a.tag = "WouldBlock" THEN s
             ELSE IF a.tag = "Other"
               THEN [pc |-> "done", idx |-> s.idx, tag |-> "Err", err |-> a.val]
             ELSE IF s.pc = "send" THEN [s EXCEPT !.pc = "read"]
             ELSE IF s.idx = Len(orig)
               THEN [pc |-> "done", idx |-> s.idx + 1, tag |-> "Ok", err |-> 0]
               ELSE [pc |-> "send", idx |-> s.idx + 1, tag |-> "None", err |-> 0]

\* C17: for the same input and the same series of device answers, write and
\* transfer make the same device calls and return the same success or fatal
\* error: calls and outcome are one function of input and answers for both.
\* They differ in the slice only: transfer holds the received units in the
\* positions already read, write leaves the slice alone and returns no data.
C17_WriteAndTransferAgree ==
  mode # "idle" =>
    /\ \A k \in 1..Len(calls) :
         /\ calls[k].op = After(k - 1).pc
         /\ calls[k].pos = After(k - 1).idx
         /\ calls[k].arg = (IF calls[k].op = "send" THEN orig[calls[k].pos] ELSE 0)
    /\ pc = After(Len(calls)).pc
    /\ idx = After(Len(calls)).idx
    /\ result.tag = After(Len(calls)).tag
    /\ result.err = After(Len(calls)).err
    /\ Len(words) = Len(orig)
    /\ mode = "transfer" =>
         /\ \A i \in 1..Len(orig) :
              IF i < idx THEN Received(i) = {words[i]} ELSE words[i] = orig[i]
         /\ result.tag = "Ok" => result.data = words
    /\ mode = "write" => (words = orig /\ result.data = <<>>)

C17_Witness ==
  /\ mode = "write" /\ Returned /\ result.tag = "Err"
  /\ calls[Len(calls)].op = "read" /\ calls[Len(calls)].pos = 2
  /\ NumBlocked >= 1
  /\ \E k \in CallsWith("read", "Ok") : calls[k].res.val # orig[1]

\* C18: over an empty slice both bridges return success at once and make no
\* device call at all.
C18_EmptySliceNoDeviceCall ==
  (mode # "idle" /\ orig = <<>>) =>
     /\ Returned
     /\ result.tag = "Ok"
     /\ result.data = <<>>
     /\ calls = <<>>

C18_Witness ==
  /\ mode = "transfer" /\ orig = <<>> /\ Returned /\ calls = <<>>

====
